---------------------------- MODULE Spec2Model ----------------------------
(***************************************************************************)
(* A model of the FeedingTracker event log store (feeding_server.py): two  *)
(* SQLite tables, feedings and diaper_changes, and the tool handlers that  *)
(* insert into them, delete their most recent row and summarise them.      *)
(*                                                                         *)
(* Text is modelled as a sequence of character codes, so that what         *)
(* strftime writes, what strptime accepts and how SQLite orders TEXT       *)
(* values are computed, not assumed.                                       *)
(***************************************************************************)
EXTENDS Integers, Sequences, FiniteSets, TLC

VARIABLES
    utcnow,           \* datetime.datetime.utcnow(), seconds since 2024-01-01 00:00:00 UTC
    pc,               \* "boot": no init_db() has succeeded; "ready": waiting for a
                      \* call; "done": a call has returned and result holds its outcome
    tables,           \* the tables that exist in DB_FILE
    feedings,         \* rows of table feedings
    diaper_changes,   \* rows of table diaper_changes
    sqlite_sequence,  \* AUTOINCREMENT's bookkeeping: table name -> largest rowid ever used
    call,             \* the last call: the operation's name and its arguments
    result,           \* what the last call returned (or raised)
    pre,              \* the store as it was when the last call started
    issued,           \* history: table name -> the ids given to its rows, in order
    ops               \* history: the number of record_* / delete_last_* calls so far

vars == <<utcnow, pc, tables, feedings, diaper_changes, sqlite_sequence,
          call, result, pre, issued, ops>>

-----------------------------------------------------------------------------
(* Bounds of the model. *)

\* The number of record_* and delete_last_* calls in a run.
MaxOps == 3

\* The number of clock steps in a run.
MaxTicks == 1

\* Seconds the clock advances in one step.
TickSeconds == 30

-----------------------------------------------------------------------------
(* Character codes. *)

SP == 32
DASH == 45
COLON == 58
ZERO == 48

IsDigit(c) == c >= 48 /\ c <= 57

\* Python's \s for str patterns, over ASCII: space, \t \n \v \f \r
IsSpace(c) == c = 32 \/ (c >= 9 /\ c <= 13)

Pad2(n) == <<ZERO + (n \div 10), ZERO + (n % 10)>>

Pad4(n) == <<ZERO + (n \div 1000), ZERO + ((n \div 100) % 10),
             ZERO + ((n \div 10) % 10), ZERO + (n % 10)>>

\* str(n) for 0 <= n <= 99, as a caller writes a number without padding
Unpad2(n) == IF n < 10 THEN <<ZERO + n>> ELSE Pad2(n)

-----------------------------------------------------------------------------
(* The proleptic Gregorian calendar of datetime.datetime. *)

IsLeap(y) == (y % 4 = 0) /\ ((y % 100 # 0) \/ (y % 400 = 0))

DaysInMonth(y, m) ==
    IF m = 2 THEN (IF IsLeap(y) THEN 29 ELSE 28)
    ELSE IF m \in {4, 6, 9, 11} THEN 30 ELSE 31

RECURSIVE DaysBeforeMonth(_, _)
DaysBeforeMonth(y, m) ==
    IF m <= 1 THEN 0 ELSE DaysBeforeMonth(y, m - 1) + DaysInMonth(y, m - 1)

DaysBeforeYear(y) ==
    LET p == y - 1 IN 365 * p + (p \div 4) - (p \div 100) + (p \div 400)

\* datetime.toordinal(): 0001-01-01 is day 1
ToOrdinal(y, m, d) == DaysBeforeYear(y) + DaysBeforeMonth(y, m) + d

\* The clock's epoch, 2024-01-01
EpochYear == 2024

EpochOrdinal == ToOrdinal(EpochYear, 1, 1)

\* The month and day of the n-th day of year y, counting from month m
RECURSIVE MonthAndDay(_, _, _)
MonthAndDay(y, m, n) ==
    IF n <= DaysInMonth(y, m) THEN [Y |-> y, m |-> m, d |-> n]
    ELSE MonthAndDay(y, m + 1, n - DaysInMonth(y, m))

\* datetime.fromordinal(), from the epoch's year on
RECURSIVE FromOrdinalSince(_, _)
FromOrdinalSince(y, n) ==
    IF n <= DaysBeforeYear(y + 1) THEN MonthAndDay(y, 1, n - DaysBeforeYear(y))
    ELSE FromOrdinalSince(y + 1, n)

FromOrdinal(n) == FromOrdinalSince(EpochYear, n)

\* A datetime is [Y, m, d, H, M, S] (the handlers' strings carry no microseconds).
\* a - b in seconds: timedelta.total_seconds()
DiffSeconds(a, b) ==
    (ToOrdinal(a.Y, a.m, a.d) - ToOrdinal(b.Y, b.m, b.d)) * 86400
    + (a.H * 3600 + a.M * 60 + a.S) - (b.H * 3600 + b.M * 60 + b.S)

\* dt + datetime.timedelta(days=n)
AddDays(dt, n) ==
    LET c == FromOrdinal(ToOrdinal(dt.Y, dt.m, dt.d) + n)
    IN  [dt EXCEPT !.Y = c.Y, !.m = c.m, !.d = c.d]


-----------------------------------------------------------------------------
(* strftime, strptime and SQLite's comparison of TEXT values. *)

\* dt.strftime('%Y-%m-%d %H:%M:%S')
Strftime(dt) ==
    Pad4(dt.Y) \o <<DASH>> \o Pad2(dt.m) \o <<DASH>> \o Pad2(dt.d) \o <<SP>>
    \o Pad2(dt.H) \o <<COLON>> \o Pad2(dt.M) \o <<COLON>> \o Pad2(dt.S)

\* dt.strftime('%Y-%m-%d')
StrftimeDate(dt) == Pad4(dt.Y) \o <<DASH>> \o Pad2(dt.m) \o <<DASH>> \o Pad2(dt.d)

\* f"{date_str} 00:00:00"
Midnight(date_str) ==
    date_str \o <<SP>> \o Pad2(0) \o <<COLON>> \o Pad2(0) \o <<COLON>> \o Pad2(0)

At(s, i) == IF i >= 1 /\ i <= Len(s) THEN s[i] ELSE 0

\* The length of the run of digits of s that starts at i, counted up to 3
DigitRun(s, i) ==
    IF ~IsDigit(At(s, i)) THEN 0
    ELSE IF ~IsDigit(At(s, i + 1)) THEN 1
    ELSE IF ~IsDigit(At(s, i + 2)) THEN 2 ELSE 3

\* The length of the run of whitespace of s that starts at i
RECURSIVE SpaceRun(_, _)
SpaceRun(s, i) == IF IsSpace(At(s, i)) THEN 1 + SpaceRun(s, i + 1) ELSE 0

Val(c) == c - ZERO

\* One numeric directive of _strptime's regular expression at position i: the
\* two-digit alternatives (values lo2..hi2, tried first) or one digit (lo1..9).
\* The pattern element after each directive is never a digit, so the directive
\* takes the whole run of digits or the match fails.
Directive(s, i, lo2, hi2, lo1) ==
    LET n == DigitRun(s, i)
        v == IF n = 1 THEN Val(s[i])
             ELSE IF n = 2 THEN 10 * Val(s[i]) + Val(s[i + 1]) ELSE 0
    IN  [ok |-> \/ (n = 2 /\ v >= lo2 /\ v <= hi2)
                \/ (n = 1 /\ v >= lo1),
         val |-> v, next |-> i + n]

\* %d: 3[0-1]|[1-2]\d|0[1-9]|[1-9]| [1-9]
DirectiveDay(s, i) ==
    IF At(s, i) = SP
    THEN [ok |-> DigitRun(s, i + 1) = 1 /\ Val(At(s, i + 1)) >= 1,
          val |-> Val(At(s, i + 1)), next |-> i + 2]
    ELSE Directive(s, i, 1, 31, 1)

\* A literal character of the format at position i
Lit(s, i, c) == At(s, i) = c

\* datetime.datetime.strptime(s, "%Y-%m-%d %H:%M:%S"): [ok |-> FALSE] where it
\* raises ValueError (no match, unconverted data, or a date the datetime
\* constructor rejects), else the datetime.
Strptime(s) ==
    LET yOk == DigitRun(s, 1) = 3 /\ IsDigit(At(s, 4)) /\ Lit(s, 5, DASH)
        y   == 1000 * Val(At(s, 1)) + 100 * Val(At(s, 2)) + 10 * Val(At(s, 3)) + Val(At(s, 4))
        mo  == Directive(s, 6, 1, 12, 1)
        da  == DirectiveDay(s, mo.next + 1)
        ws  == SpaceRun(s, da.next)
        ho  == Directive(s, da.next + ws, 0, 23, 0)
        mi  == Directive(s, ho.next + 1, 0, 59, 0)
        se  == Directive(s, mi.next + 1, 0, 61, 0)
        matched ==
            /\ yOk
            /\ mo.ok /\ Lit(s, mo.next, DASH)
            /\ da.ok /\ ws >= 1
            /\ ho.ok /\ Lit(s, ho.next, COLON)
            /\ mi.ok /\ Lit(s, mi.next, COLON)
            /\ se.ok /\ se.next = Len(s) + 1
        valid ==
            /\ y >= 1
            /\ da.val <= DaysInMonth(y, mo.val)
            /\ se.val <= 59
    IN  IF matched /\ valid
        THEN [ok |-> TRUE,
              dt |-> [Y |-> y, m |-> mo.val, d |-> da.val,
                      H |-> ho.val, M |-> mi.val, S |-> se.val]]
        ELSE [ok |-> FALSE]

\* a < b for two TEXT values under SQLite's BINARY collation: memcmp over the
\* common length, then the shorter one first
RECURSIVE TextLessFrom(_, _, _)
TextLessFrom(a, b, i) ==
    IF i > Len(b) THEN FALSE
    ELSE IF i > Len(a) THEN TRUE
    ELSE IF a[i] = b[i] THEN TextLessFrom(a, b, i + 1)
    ELSE a[i] < b[i]

TextLess(a, b) == TextLessFrom(a, b, 1)

TextLeq(a, b) == a = b \/ TextLess(a, b)

-----------------------------------------------------------------------------
(* The clock and the callers' inputs. *)

\* The clock's first reading: 2024-01-09 15:59:30 UTC, 23:59:30 in UTC+8
StartUtc == 8 * 86400 + 15 * 3600 + 59 * 60 + 30

\* The datetime u seconds after the epoch
DatetimeAt(u) ==
    LET c == FromOrdinal(EpochOrdinal + (u \div 86400))
        sod == u % 86400
    IN  [Y |-> c.Y, m |-> c.m, d |-> c.d,
         H |-> sod \div 3600, M |-> (sod \div 60) % 60, S |-> sod % 60]

\* datetime.datetime.utcnow() + datetime.timedelta(hours=8)
BeijingNow(u) == DatetimeAt(u + 8 * 3600)

\* A date-time as a caller may write it without leading zeros: "2024-1-9 22:0:0"
Unpadded(dt) ==
    Pad4(dt.Y) \o <<DASH>> \o Unpad2(dt.m) \o <<DASH>> \o Unpad2(dt.d) \o <<SP>>
    \o Unpad2(dt.H) \o <<COLON>> \o Unpad2(dt.M) \o <<COLON>> \o Unpad2(dt.S)

\* The moments callers give explicitly: two hours before the clock's first
\* reading, and ninety seconds after it, which is later than every reading of
\* the clock.
Earlier == BeijingNow(StartUtc - 7170)

Later == BeijingNow(StartUtc + 90)

\* "not-a-date"
NotADate == <<110, 111, 116, 45, 97, 45, 100, 97, 116, 101>>

\* "2024-02-30 00:00:00": the pattern matches, the date does not exist
NoSuchDay ==
    Pad4(EpochYear) \o <<DASH>> \o Pad2(2) \o <<DASH>> \o Pad2(30) \o <<SP>>
    \o Pad2(0) \o <<COLON>> \o Pad2(0) \o <<COLON>> \o Pad2(0)

\* The calls of record_feeding(amount_ml, feeding_type, timestamp): the
\* timestamp is "" (the default), the earlier moment written without leading
\* zeros, the later one written with them, or a string strptime rejects
FeedingCalls ==
    { [amount_ml |-> 150, feeding_type |-> "formula", timestamp |-> <<>>],
      [amount_ml |-> 200, feeding_type |-> "formula", timestamp |-> <<>>],
      [amount_ml |-> 150, feeding_type |-> "breast_milk", timestamp |-> Unpadded(Earlier)],
      [amount_ml |-> 200, feeding_type |-> "formula", timestamp |-> Strftime(Later)],
      [amount_ml |-> 150, feeding_type |-> "formula", timestamp |-> NotADate],
      [amount_ml |-> 200, feeding_type |-> "formula", timestamp |-> NoSuchDay] }

\* The calls of record_diaper_change(diaper_type, timestamp)
DiaperCalls ==
    { [diaper_type |-> "pee", timestamp |-> <<>>],
      [diaper_type |-> "poop", timestamp |-> <<>>],
      [diaper_type |-> "both", timestamp |-> <<>>],
      [diaper_type |-> "pee", timestamp |-> Unpadded(Earlier)],
      [diaper_type |-> "poop", timestamp |-> Strftime(Later)],
      [diaper_type |-> "pee", timestamp |-> NotADate],
      [diaper_type |-> "both", timestamp |-> NoSuchDay] }

-----------------------------------------------------------------------------
(* SQL. *)

TableNames == {"feedings", "diaper_changes"}

MaxOf(S) == CHOOSE x \in S : \A y \in S : y <= x

\* The rowid an INSERT gives under INTEGER PRIMARY KEY AUTOINCREMENT: one more
\* than the largest rowid the table has ever held (sqlite_sequence)
\* (Faulty variant, for C8: the rowid of a plain INTEGER PRIMARY KEY.)
MutNextRowid(rows, seq) == MaxOf({0} \cup { r.id : r \in rows }) + 1
NextRowid(rows, seq) == MaxOf({seq} \cup { r.id : r \in rows }) + 1

\* ORDER BY timestamp DESC LIMIT 1: the rows that may come first. The order
\* among rows of equal timestamp is the engine's choice.
\* (Faulty variant, for C3 and C6: ORDER BY id DESC LIMIT 1.)
MutTop(rows) == { r \in rows : \A q \in rows : q.id <= r.id }
Top(rows) == { r \in rows : \A q \in rows : TextLeq(q.timestamp, r.timestamp) }

\* WHERE timestamp >= ? AND timestamp < ?
InWindow(rows, start_ts, end_ts) ==
    { r \in rows : TextLeq(start_ts, r.timestamp) /\ TextLess(r.timestamp, end_ts) }

\* SUM(amount_ml)
RECURSIVE SumAmount(_)
SumAmount(rows) ==
    IF rows = {} THEN 0
    ELSE LET r == CHOOSE x \in rows : TRUE IN r.amount_ml + SumAmount(rows \ {r})

\* round(AVG(amount_ml), 1), in tenths: Python rounds a tie to the even digit.
\* (A tie is x.25 or x.75 for fewer than 20 rows, and those floats are exact.)
RoundTenths(total, n) ==
    LET q == (10 * total) \div n
        r == (10 * total) % n
    IN  IF 2 * r < n THEN q
        ELSE IF 2 * r > n THEN q + 1
        ELSE IF q % 2 = 0 THEN q ELSE q + 1

Snapshot ==
    [utcnow |-> utcnow, tables |-> tables, feedings |-> feedings,
     diaper_changes |-> diaper_changes, sqlite_sequence |-> sqlite_sequence]

-----------------------------------------------------------------------------
(* The state after the module is imported: no database file yet. *)

Init ==
    /\ utcnow = StartUtc
    /\ pc = "boot"
    /\ tables = {}
    /\ feedings = {}
    /\ diaper_changes = {}
    /\ sqlite_sequence = [t \in TableNames |-> 0]
    /\ call = [op |-> "none"]
    /\ result = [status |-> "none"]
    /\ pre = [op |-> "none"]
    /\ issued = [t \in TableNames |-> <<>>]
    /\ ops = 0

NoCall == [op |-> "none"]

NoResult == [status |-> "none"]

\* Time passes between calls.
Tick ==
    /\ pc = "ready"
    /\ utcnow < StartUtc + MaxTicks * TickSeconds
    /\ utcnow' = utcnow + TickSeconds
    /\ UNCHANGED <<pc, tables, feedings, diaper_changes, sqlite_sequence,
                   call, result, pre, issued, ops>>

\* The caller has its answer and the server waits for the next call: the
\* handlers are synchronous and nothing of a call outlives it but the store.
Respond ==
    /\ pc = "done"
    /\ pc' = "ready"
    /\ call' = NoCall
    /\ result' = NoResult
    /\ pre' = NoCall
    /\ UNCHANGED <<utcnow, tables, feedings, diaper_changes, sqlite_sequence,
                   issued, ops>>

\* The database file's contents, as one value
Store ==
    [tables |-> tables, feedings |-> feedings, diaper_changes |-> diaper_changes,
     sqlite_sequence |-> sqlite_sequence]

\* CREATE TABLE IF NOT EXISTS name (...): nothing happens to a table that exists
\* (Faulty variant, for C9: the table is created anew, empty.)
MutCreateTableIfNotExists(db, name) ==
    [db EXCEPT !.tables = @ \cup {name}, ![name] = {}, !.sqlite_sequence[name] = 0]
CreateTableIfNotExists(db, name) ==
    [db EXCEPT !.tables = @ \cup {name}]

\* init_db(), at process start (and in the test, directly). failAt is where
\* the store fails, if it does: at sqlite3.connect, or at the second CREATE,
\* which leaves the first table created (DDL is not held in a transaction).
\* The except clause logs and raises again, which ends the process.
InitDb(failAt) ==
    LET first == CreateTableIfNotExists(Store, "feedings")
        second == CreateTableIfNotExists(first, "diaper_changes")
        db == IF failAt = "connect" THEN Store
              ELSE IF failAt = "create_diaper_changes" THEN first ELSE second
    IN  /\ pc \in {"boot", "ready"}
        /\ call' = [op |-> "init_db", failAt |-> failAt]
        /\ pre' = Snapshot
        /\ tables' = db.tables
        /\ feedings' = db.feedings
        /\ diaper_changes' = db.diaper_changes
        /\ sqlite_sequence' = db.sqlite_sequence
        /\ result' = [status |-> IF failAt = "none" THEN "returned" ELSE "raised"]
        /\ pc' = IF failAt = "none" THEN "done" ELSE "boot"
        /\ UNCHANGED <<utcnow, issued, ops>>

\* The timestamp record_* stores: the caller's string as given when it is not
\* empty, else the UTC+8 time of the call, formatted.
ResolveTimestamp(timestamp) ==
    IF timestamp # <<>> THEN timestamp ELSE Strftime(BeijingNow(utcnow))

\* Whether record_* raises before it reaches the INSERT
\* (Faulty variant, for C2: no validation.)
MutRejects(timestamp) == FALSE
Rejects(timestamp) == timestamp # <<>> /\ ~Strptime(timestamp).ok

\* record_feeding(amount_ml, feeding_type, timestamp)
RecordFeeding(amount_ml, feeding_type, timestamp) ==
    /\ pc = "ready"
    /\ pc' = "done"
    /\ ops < MaxOps
    /\ ops' = ops + 1
    /\ call' = [op |-> "record_feeding", timestamp |-> timestamp]
    /\ pre' = Snapshot
    /\ IF Rejects(timestamp)
       THEN /\ result' = [status |-> "error"]
            /\ UNCHANGED <<feedings, sqlite_sequence, issued>>
       ELSE LET ts == ResolveTimestamp(timestamp)
                id == NextRowid(feedings, sqlite_sequence["feedings"])
            IN  /\ feedings' = feedings \cup
                       {[id |-> id, timestamp |-> ts, amount_ml |-> amount_ml,
                         feeding_type |-> feeding_type]}
                /\ sqlite_sequence' = [sqlite_sequence EXCEPT !["feedings"] = id]
                /\ issued' = [issued EXCEPT !["feedings"] = Append(@, id)]
                /\ result' = [status |-> "success", amount_ml |-> amount_ml,
                              feeding_type |-> feeding_type, timestamp |-> ts]
    /\ UNCHANGED <<utcnow, tables, diaper_changes>>

\* record_diaper_change(diaper_type, timestamp)
RecordDiaperChange(diaper_type, timestamp) ==
    /\ pc = "ready"
    /\ pc' = "done"
    /\ ops < MaxOps
    /\ ops' = ops + 1
    /\ call' = [op |-> "record_diaper_change", timestamp |-> timestamp]
    /\ pre' = Snapshot
    /\ IF Rejects(timestamp)
       THEN /\ result' = [status |-> "error"]
            /\ UNCHANGED <<diaper_changes, sqlite_sequence, issued>>
       ELSE LET ts == ResolveTimestamp(timestamp)
                id == NextRowid(diaper_changes, sqlite_sequence["diaper_changes"])
            IN  /\ diaper_changes' = diaper_changes \cup
                       {[id |-> id, timestamp |-> ts, diaper_type |-> diaper_type]}
                /\ sqlite_sequence' = [sqlite_sequence EXCEPT !["diaper_changes"] = id]
                /\ issued' = [issued EXCEPT !["diaper_changes"] = Append(@, id)]
                /\ result' = [status |-> "success", diaper_type |-> diaper_type,
                              timestamp |-> ts]
    /\ UNCHANGED <<utcnow, tables, feedings>>

\* DELETE FROM t WHERE id = (SELECT id FROM t ORDER BY timestamp DESC LIMIT 1):
\* the rows that may be left. On an empty table the subquery is NULL and no
\* row matches.
AfterDeleteLast(rows) ==
    IF rows = {} THEN { rows }
    ELSE { { q \in rows : q.id # r.id } : r \in Top(rows) }

\* delete_last_feeding()
DeleteLastFeeding ==
    /\ pc = "ready"
    /\ pc' = "done"
    /\ ops < MaxOps
    /\ ops' = ops + 1
    /\ call' = [op |-> "delete_last_feeding"]
    /\ pre' = Snapshot
    /\ feedings' \in AfterDeleteLast(feedings)
    /\ result' = [status |-> "success"]
    /\ UNCHANGED <<utcnow, tables, diaper_changes, sqlite_sequence, issued>>

\* delete_last_diaper_change()
DeleteLastDiaperChange ==
    /\ pc = "ready"
    /\ pc' = "done"
    /\ ops < MaxOps
    /\ ops' = ops + 1
    /\ call' = [op |-> "delete_last_diaper_change"]
    /\ pre' = Snapshot
    /\ diaper_changes' \in AfterDeleteLast(diaper_changes)
    /\ result' = [status |-> "success"]
    /\ UNCHANGED <<utcnow, tables, feedings, sqlite_sequence, issued>>

-----------------------------------------------------------------------------
(* The read-only tools. *)

\* The timestamp of ORDER BY timestamp DESC LIMIT 1, or "None" (here <<>>)
LastTimes(rows) ==
    IF rows = {} THEN { <<>> } ELSE { r.timestamp : r \in Top(rows) }

\* get_daily_summary()
GetDailySummary ==
    LET beijing_now == BeijingNow(utcnow)
        today_str == StrftimeDate(beijing_now)
        tomorrow_str == StrftimeDate(AddDays(beijing_now, 1))
        start_ts == Midnight(today_str)
        end_ts == Midnight(tomorrow_str)
        today == InWindow(feedings, start_ts, end_ts)
        count == Cardinality(today)
        total_vol == SumAmount(today)
    IN  /\ pc = "ready"
        /\ pc' = "done"
        /\ call' = [op |-> "get_daily_summary"]
        /\ pre' = Snapshot
        /\ \E last \in LastTimes(feedings) :
              result' = [status |-> "summary",
                         date |-> today_str,
                         total_feedings |-> count,
                         total_volume_ml |-> total_vol,
                         average_volume_tenths |->
                             IF count = 0 \/ total_vol = 0 THEN 0
                             ELSE RoundTenths(total_vol, count),
                         last_feeding_time |-> last]
        /\ UNCHANGED <<utcnow, tables, feedings, diaper_changes,
                       sqlite_sequence, issued, ops>>

\* SELECT diaper_type, COUNT(*) ... GROUP BY diaper_type, as {row[0]: row[1]}
GroupCount(rows) ==
    [t \in { r.diaper_type : r \in rows } |->
        Cardinality({ r \in rows : r.diaper_type = t })]

\* sum(stats.values())
RECURSIVE SumValues(_)
SumValues(stats) ==
    IF DOMAIN stats = {} THEN 0
    ELSE LET k == CHOOSE x \in DOMAIN stats : TRUE
         IN  stats[k] + SumValues([x \in DOMAIN stats \ {k} |-> stats[x]])

\* get_daily_diaper_summary()
GetDailyDiaperSummary ==
    LET beijing_now == BeijingNow(utcnow)
        today_str == StrftimeDate(beijing_now)
        tomorrow_str == StrftimeDate(AddDays(beijing_now, 1))
        start_ts == Midnight(today_str)
        end_ts == Midnight(tomorrow_str)
        stats == GroupCount(InWindow(diaper_changes, start_ts, end_ts))
    IN  /\ pc = "ready"
        /\ pc' = "done"
        /\ call' = [op |-> "get_daily_diaper_summary"]
        /\ pre' = Snapshot
        /\ \E last \in LastTimes(diaper_changes) :
              result' = [status |-> "summary",
                         date |-> today_str,
                         total_changes |-> SumValues(stats),
                         counts |-> stats,
                         last_change_time |-> last]
        /\ UNCHANGED <<utcnow, tables, feedings, diaper_changes,
                       sqlite_sequence, issued, ops>>

\* int(x / 60) for an integer number of seconds x: int() drops the fraction,
\* towards zero
IntDiv60(x) == IF x >= 0 THEN x \div 60 ELSE -((-x) \div 60)

\* The fields get_last_*_info adds to the row: minutes_since, the description
\* f"{hours}小时{mins}分钟前" (its numbers, the hours only when hours > 0) and
\* current_time; or the description alone, "时间计算错误", when strptime raises.
Elapsed(timestamp_str) ==
    LET parsed == Strptime(timestamp_str)
        beijing_now == BeijingNow(utcnow)
        minutes_total == IntDiv60(DiffSeconds(beijing_now, parsed.dt))
        hours == minutes_total \div 60
        mins == minutes_total % 60
    IN  IF parsed.ok
        THEN [calc |-> "ok",
              minutes_since |-> minutes_total,
              description |-> [hours |-> IF hours > 0 THEN <<hours>> ELSE <<>>,
                               mins |-> mins],
              current_time |-> Strftime(beijing_now)]
        ELSE [calc |-> "error"]

\* get_last_feeding_info()
GetLastFeedingInfo ==
    /\ pc = "ready"
    /\ pc' = "done"
    /\ call' = [op |-> "get_last_feeding_info"]
    /\ pre' = Snapshot
    /\ IF feedings = {}
       THEN result' = [status |-> "error"]
       ELSE \E row \in Top(feedings) :
               result' = [status |-> "record",
                          row |-> [timestamp |-> row.timestamp,
                                   amount_ml |-> row.amount_ml,
                                   feeding_type |-> row.feeding_type],
                          elapsed |-> Elapsed(row.timestamp)]
    /\ UNCHANGED <<utcnow, tables, feedings, diaper_changes,
                   sqlite_sequence, issued, ops>>

\* get_last_diaper_change_info()
GetLastDiaperChangeInfo ==
    /\ pc = "ready"
    /\ pc' = "done"
    /\ call' = [op |-> "get_last_diaper_change_info"]
    /\ pre' = Snapshot
    /\ IF diaper_changes = {}
       THEN result' = [status |-> "error"]
       ELSE \E row \in Top(diaper_changes) :
               result' = [status |-> "record",
                          row |-> [timestamp |-> row.timestamp,
                                   diaper_type |-> row.diaper_type],
                          elapsed |-> Elapsed(row.timestamp)]
    /\ UNCHANGED <<utcnow, tables, feedings, diaper_changes,
                   sqlite_sequence, issued, ops>>

\* The functions feeding_server.py defines
ModuleFunctions ==
    {"init_db", "record_feeding", "get_daily_summary", "get_last_feeding_info",
     "delete_last_feeding", "record_diaper_change", "get_daily_diaper_summary",
     "get_last_diaper_change_info", "delete_last_diaper_change"}

\* The functions of feeding_server the test calls
TestCalls ==
    {"init_db", "record_feeding", "get_daily_summary", "get_recent_feedings",
     "record_diaper_change", "get_daily_diaper_summary", "get_recent_diaper_changes"}

\* The limit arguments of the model (the test passes 5)
Limits == {5}

\* feeding_server.<name>(limit=limit) for a name the module does not define:
\* the attribute lookup raises AttributeError and nothing is read or returned.
CallUndefined(name, limit) ==
    /\ pc = "ready"
    /\ pc' = "done"
    /\ name \notin ModuleFunctions
    /\ call' = [op |-> name, limit |-> limit]
    /\ pre' = Snapshot
    /\ result' = [status |-> "raised"]
    /\ UNCHANGED <<utcnow, tables, feedings, diaper_changes,
                   sqlite_sequence, issued, ops>>

-----------------------------------------------------------------------------

Next ==
    \/ Tick
    \/ Respond
    \/ \E failAt \in {"none", "connect", "create_diaper_changes"} : InitDb(failAt)
    \/ \E c \in FeedingCalls : RecordFeeding(c.amount_ml, c.feeding_type, c.timestamp)
    \/ \E c \in DiaperCalls : RecordDiaperChange(c.diaper_type, c.timestamp)
    \/ DeleteLastFeeding
    \/ DeleteLastDiaperChange
    \/ GetDailySummary
    \/ GetDailyDiaperSummary
    \/ GetLastFeedingInfo
    \/ GetLastDiaperChangeInfo
    \/ \E name \in TestCalls, limit \in Limits : CallUndefined(name, limit)

Spec == Init /\ [][Next]_vars

-----------------------------------------------------------------------------
(* What the properties below are stated with. *)

\* The moment a stored timestamp denotes
Moment(timestamp) == Strptime(timestamp).dt

\* The UTC+8 time at which the last call was made
CallTime == BeijingNow(pre.utcnow)

\* 00:00:00 of the day of dt
StartOfDay(dt) == [dt EXCEPT !.H = 0, !.M = 0, !.S = 0]

\* The moment lies in [today 00:00:00, tomorrow 00:00:00) of the call's day
IsToday(timestamp) ==
    /\ DiffSeconds(Moment(timestamp), StartOfDay(CallTime)) >= 0
    /\ DiffSeconds(Moment(timestamp), AddDays(StartOfDay(CallTime), 1)) < 0

\* tenths is total / n rounded to one decimal place
IsRoundedMean(tenths, total, n) ==
    LET err == 10 * total - tenths * n
    IN  2 * (IF err >= 0 THEN err ELSE -err) <= n

\* YYYY-MM-DD HH:MM:SS: 19 characters, digits but for - - space : :
IsFixedFormat(timestamp) ==
    /\ Len(timestamp) = 19
    /\ \A i \in 1 .. 19 :
          IF i \in {5, 8} THEN timestamp[i] = DASH
          ELSE IF i = 11 THEN timestamp[i] = SP
          ELSE IF i \in {14, 17} THEN timestamp[i] = COLON
          ELSE IsDigit(timestamp[i])

Ids(rows) == { r.id : r \in rows }

\* The logs are as they were when the call started
LogsUnchanged == feedings = pre.feedings /\ diaper_changes = pre.diaper_changes

\* after is before less one row that no row of before outranks by timestamp
RemovedTopRow(before, after) ==
    \E r \in before :
        /\ after = before \ {r}
        /\ Cardinality(after) = Cardinality(before) - 1
        /\ \A q \in before : ~TextLess(r.timestamp, q.timestamp)

-----------------------------------------------------------------------------
(* The claims. *)

\* C1: get_daily_summary() counts the stored feedings whose timestamp lies in
\* [today 00:00:00, tomorrow 00:00:00) of the UTC+8 day of the call, sums their
\* amount_ml and gives their mean rounded to one decimal place (0, 0, 0 when
\* there is none).
C1_DailySummaryOfToday ==
    call.op = "get_daily_summary" =>
        LET today == { r \in pre.feedings : IsToday(r.timestamp) }
            n == Cardinality(today)
        IN  /\ result.total_feedings = n
            /\ result.total_volume_ml = SumAmount(today)
            /\ IF n = 0 THEN result.average_volume_tenths = 0
               ELSE IsRoundedMean(result.average_volume_tenths, SumAmount(today), n)

\* C2: record_feeding and record_diaper_change, given a timestamp that
\* strptime does not parse, return an error and leave both logs as they were.
C2_MalformedTimestampRejected ==
    ( /\ call.op \in {"record_feeding", "record_diaper_change"}
      /\ call.timestamp # <<>>
      /\ ~Strptime(call.timestamp).ok )
    => (result.status = "error" /\ LogsUnchanged)

C2_Witness ==
    /\ call.op = "record_feeding"
    /\ call.timestamp = NotADate
    /\ result.status = "error"
    /\ Cardinality(feedings) = 2

\* C3: delete_last_feeding() succeeds; on an empty log it leaves the log empty,
\* on a non-empty log it removes exactly one row, one that no other row
\* exceeds in timestamp (as the store compares timestamps), and changes no
\* other row. delete_last_diaper_change() does the same on the diaper log.
C3_DeleteLastRemovesTopRow ==
    /\ call.op = "delete_last_feeding" =>
          /\ result.status = "success"
          /\ diaper_changes = pre.diaper_changes
          /\ IF pre.feedings = {} THEN feedings = {}
             ELSE RemovedTopRow(pre.feedings, feedings)
    /\ call.op = "delete_last_diaper_change" =>
          /\ result.status = "success"
          /\ feedings = pre.feedings
          /\ IF pre.diaper_changes = {} THEN diaper_changes = {}
             ELSE RemovedTopRow(pre.diaper_changes, diaper_changes)

\* A delete that removed a row other than the newest by id
C3_Witness ==
    /\ call.op = "delete_last_feeding"
    /\ Cardinality(pre.feedings) = 2
    /\ \E r \in feedings : \A q \in pre.feedings : q.id <= r.id

\* C4: get_recent_feedings(limit=k) and get_recent_diaper_changes(limit=k) are
\* callable and return min(k, row count) rows of their log in descending
\* order of timestamp.
C4_RecentReturnsRows ==
    call.op \in {"get_recent_feedings", "get_recent_diaper_changes"} =>
        LET log == IF call.op = "get_recent_feedings"
                   THEN pre.feedings ELSE pre.diaper_changes
            n == IF call.limit < Cardinality(log) THEN call.limit ELSE Cardinality(log)
        IN  /\ result.status = "returned"
            /\ Len(result.rows) = n
            /\ \A i \in 1 .. n : result.rows[i] \in log
            /\ \A i \in 1 .. n - 1 :
                  TextLess(result.rows[i + 1].timestamp, result.rows[i].timestamp)

\* C5: get_daily_diaper_summary() maps each diaper_type that occurs among the
\* diaper changes of today (the UTC+8 day of the call) to the number of them,
\* has no key for a type that does not occur today, and totals the counts.
C5_DiaperSummaryOfToday ==
    call.op = "get_daily_diaper_summary" =>
        LET today == { r \in pre.diaper_changes : IsToday(r.timestamp) }
        IN  /\ DOMAIN result.counts = { r.diaper_type : r \in today }
            /\ \A t \in DOMAIN result.counts :
                  result.counts[t] = Cardinality({ r \in today : r.diaper_type = t })
            /\ result.total_changes = Cardinality(today)

\* C6: get_last_feeding_info() returns an error exactly when the feeding log
\* is empty, otherwise a stored event that no stored event exceeds in
\* timestamp, and changes neither log; likewise get_last_diaper_change_info().
C6_LastInfoIsTopRowOrError ==
    /\ call.op = "get_last_feeding_info" =>
          /\ result.status = "error" <=> pre.feedings = {}
          /\ result.status # "error" =>
                \E r \in pre.feedings :
                    /\ result.row = [timestamp |-> r.timestamp,
                                     amount_ml |-> r.amount_ml,
                                     feeding_type |-> r.feeding_type]
                    /\ \A q \in pre.feedings : TextLeq(q.timestamp, r.timestamp)
          /\ LogsUnchanged
    /\ call.op = "get_last_diaper_change_info" =>
          /\ result.status = "error" <=> pre.diaper_changes = {}
          /\ result.status # "error" =>
                \E r \in pre.diaper_changes :
                    /\ result.row = [timestamp |-> r.timestamp,
                                     diaper_type |-> r.diaper_type]
                    /\ \A q \in pre.diaper_changes : TextLeq(q.timestamp, r.timestamp)
          /\ LogsUnchanged

\* A record returned after two records and a delete
C6_Witness ==
    /\ call.op = "get_last_feeding_info"
    /\ result.status = "record"
    /\ Len(issued["feedings"]) = 2
    /\ Cardinality(feedings) = 1

\* C7: minutes_since is the floor of (UTC+8 time of the call - the event's
\* timestamp) in minutes, also for an event in the future, and the hours and
\* minutes the description shows add up to it.
C7_MinutesSinceIsFloor ==
    ( /\ call.op \in {"get_last_feeding_info", "get_last_diaper_change_info"}
      /\ result.status = "record" )
    => LET e == result.elapsed
           shown == IF e.description.hours = <<>> THEN 0 ELSE e.description.hours[1]
       IN  /\ e.calc = "ok"
           /\ e.minutes_since =
                 DiffSeconds(CallTime, Moment(result.row.timestamp)) \div 60
           /\ shown * 60 + e.description.mins = e.minutes_since

\* C8: the ids of each log's rows are distinct, were issued by the store, and
\* the store issues ids in increasing order, so that none is issued twice,
\* whatever rows have been deleted.
C8_IdsNeverReused ==
    \A t \in TableNames :
        LET rows == IF t = "feedings" THEN feedings ELSE diaper_changes
        IN  /\ Cardinality(Ids(rows)) = Cardinality(rows)
            /\ \A r \in rows : \E i \in 1 .. Len(issued[t]) : issued[t][i] = r.id
            /\ \A i, j \in 1 .. Len(issued[t]) : i < j => issued[t][i] < issued[t][j]

\* A row recorded into a log that a delete had emptied of its newest row
C8_Witness ==
    /\ call.op = "record_feeding"
    /\ result.status = "success"
    /\ pre.feedings = {}
    /\ issued["feedings"] = <<1, 2>>
    /\ Ids(feedings) = {2}

\* C9: init_db() on a store in which both tables exist changes nothing, never
\* drops a row, and raises exactly when the store fails.
C9_InitDbIdempotent ==
    call.op = "init_db" =>
        /\ pre.tables = TableNames =>
              /\ tables = pre.tables
              /\ LogsUnchanged
              /\ sqlite_sequence = pre.sqlite_sequence
        /\ pre.feedings \subseteq feedings
        /\ pre.diaper_changes \subseteq diaper_changes
        /\ result.status = "raised" <=> call.failAt # "none"

C9_Witness ==
    /\ call.op = "init_db"
    /\ call.failAt = "none"
    /\ result.status = "returned"
    /\ pre.tables = TableNames
    /\ Cardinality(feedings) = 2
    /\ diaper_changes # {}

\* C10: every stored timestamp has the fixed format YYYY-MM-DD HH:MM:SS, so
\* that the store's order of timestamps is the order of the moments they
\* denote.
C10_TimestampsFixedFormat ==
    \A r \in feedings \cup diaper_changes :
        /\ IsFixedFormat(r.timestamp)
        /\ \A q \in feedings \cup diaper_changes :
              TextLess(q.timestamp, r.timestamp)
                  <=> DiffSeconds(Moment(q.timestamp), Moment(r.timestamp)) < 0

-----------------------------------------------------------------------------
(* What holds of the summaries and of the elapsed time where the stored       *)
(* timestamps have the fixed format and are not in the future.                *)

FixedFormatLog(rows) == \A r \in rows : IsFixedFormat(r.timestamp)

\* get_daily_summary() over a log of fixed-format timestamps counts, sums and
\* averages the feedings of today.
DailySummaryOfFixedFormatLog ==
    (call.op = "get_daily_summary" /\ FixedFormatLog(pre.feedings)) =>
        LET today == { r \in pre.feedings : IsToday(r.timestamp) }
            n == Cardinality(today)
        IN  /\ result.total_feedings = n
            /\ result.total_volume_ml = SumAmount(today)
            /\ IF n = 0 THEN result.average_volume_tenths = 0
               ELSE IsRoundedMean(result.average_volume_tenths, SumAmount(today), n)

\* get_daily_diaper_summary() over a log of fixed-format timestamps counts the
\* diaper changes of today by type.
DiaperSummaryOfFixedFormatLog ==
    (call.op = "get_daily_diaper_summary" /\ FixedFormatLog(pre.diaper_changes)) =>
        LET today == { r \in pre.diaper_changes : IsToday(r.timestamp) }
        IN  /\ DOMAIN result.counts = { r.diaper_type : r \in today }
            /\ \A t \in DOMAIN result.counts :
                  result.counts[t] = Cardinality({ r \in today : r.diaper_type = t })
            /\ result.total_changes = Cardinality(today)

\* minutes_since is the floor of the elapsed minutes, and the description adds
\* up to it, for an event that is not in the future.
MinutesSinceOfPastEvent ==
    ( /\ call.op \in {"get_last_feeding_info", "get_last_diaper_change_info"}
      /\ result.status = "record"
      /\ DiffSeconds(CallTime, Moment(result.row.timestamp)) >= 0 )
    => LET e == result.elapsed
           shown == IF e.description.hours = <<>> THEN 0 ELSE e.description.hours[1]
       IN  /\ e.calc = "ok"
           /\ e.minutes_since =
                 DiffSeconds(CallTime, Moment(result.row.timestamp)) \div 60
           /\ shown * 60 + e.description.mins = e.minutes_since

\* A timestamp the store computes has the fixed format.
ComputedTimestampFixedFormat ==
    (call.op \in {"record_feeding", "record_diaper_change"}
        /\ call.timestamp = <<>>) =>
        /\ result.status = "success"
        /\ IsFixedFormat(result.timestamp)
        /\ Moment(result.timestamp) = CallTime

=============================================================================
